---- MODULE Spec2Model ----
(***************************************************************************)
(* Model of backend/server.py: the FastAPI handlers over the four MongoDB  *)
(* collections users, admins, tasks and notes.                             *)
(*                                                                         *)
(* Spec       every request runs to completion before the next one starts. *)
(* SpecAsync  the handlers of register, login, update_profile,             *)
(*            delete_user and of create, update and delete of tasks and    *)
(*            notes are cut at their awaits on the store, and two requests *)
(*            interleave.                                                  *)
(***************************************************************************)
EXTENDS Integers, Sequences, FiniteSets, TLC

VARIABLES
    users,      \* app.db.users: set of documents
    admins,     \* app.db.admins: set of documents
    tasks,      \* app.db.tasks
    notes,      \* app.db.notes
    now,        \* the clock datetime.now(timezone.utc) reads
    nextOid,    \* the next ObjectId the store hands out
    issued,     \* tokens handed out so far, each with the account it was issued to
    resp,       \* the request just answered and its response
    req         \* SpecAsync: the requests in flight, one per worker

vars == <<users, admins, tasks, notes, now, nextOid, issued, resp, req>>

----------------------------------------------------------------------------
(* Bounds *)

MaxOid == 3
MaxTicks == 1
MaxTokens == 3

(* Program constants *)

\* minutes
JWT_EXPIRATION == 60

(* Input alphabets *)

AdminEmail == "admin@x.com"
AdminPassword == "q"
Emails == {"a@x.com", AdminEmail}
Passwords == {"p", "q"}
Names == {"A"}

----------------------------------------------------------------------------
(* ObjectIds and their string forms.  An ObjectId is a number; the string  *)
(* a client sends is 24 hex digits in either letter case, or something     *)
(* else.  ObjectId(s) parses both cases; str(oid) prints lower case.       *)

Undefined == <<"undefined", 0>>

Str(oid) == <<"lower", oid>>

IsValidOid(s) == s[1] \in {"lower", "upper"}

ObjectId(s) == s[2]

\* The path parameters tried on a collection: its documents' ids in both
\* letter cases, one well-formed id of no document, and "undefined".
IdStrings(coll) ==
    {<<"lower", n>> : n \in {d._id : d \in coll} \cup {nextOid}}
        \cup {<<"upper", d._id>> : d \in coll}
        \cup {Undefined}

----------------------------------------------------------------------------
(* Passwords *)

hash_password(password) == <<"bcrypt", password>>

verify_password(plain, hashed) == hashed = <<"bcrypt", plain>>

----------------------------------------------------------------------------
(* Tokens *)

create_access_token(email, role, t) ==
    [email |-> email, role |-> role, exp |-> t + JWT_EXPIRATION, sig |-> TRUE]

Garbage == [email |-> "none", role |-> "none", exp |-> 0, sig |-> FALSE]

\* decode_token: "ok", or the reason jwt.decode raises
decode_token(tok) ==
    IF ~tok.sig THEN "Invalid token"
    ELSE IF tok.exp <= now THEN "Token expired"
    ELSE "ok"

Tokens == {i.tok : i \in issued} \cup {Garbage}

----------------------------------------------------------------------------
(* Responses *)

Response(op, arg, status, detail, body) ==
    [op |-> op, arg |-> arg, status |-> status, detail |-> detail, body |-> body]

NoArg == <<>>

NoResp == Response("none", NoArg, 0, "", {})

Procs == {1, 2}

----------------------------------------------------------------------------
(* get_current_user *)

Unauthenticated == [ok |-> FALSE, email |-> "", role |-> "", user_id |-> Undefined]

Collection(role) == IF role = "admin" THEN admins ELSE users

\* find({"email": email}) on a collection
ByEmail(coll, email) == {u \in coll : u.email = email}

Identity(u, role) == [ok |-> TRUE, email |-> u.email, role |-> role, user_id |-> Str(u._id)]

\* The identities get_current_user can return for a token: find_one returns
\* one of the matching documents, and the dependency raises 401 when the
\* token does not decode or no document matches.
get_current_user(tok) ==
    IF decode_token(tok) # "ok" THEN {Unauthenticated}
    ELSE IF ByEmail(Collection(tok.role), tok.email) = {} THEN {Unauthenticated}
    ELSE {Identity(u, tok.role) : u \in ByEmail(Collection(tok.role), tok.email)}

AuthFailed(op, arg) == Response(op, arg, 401, "Authentication failed", {})

\* A worker with no request
Idle ==
    [pc |-> "idle", op |-> "none", tok |-> Garbage, arg |-> NoArg,
     cu |-> Unauthenticated, at |-> 0]

----------------------------------------------------------------------------
Init ==
    /\ users = {}
    /\ admins = {[_id |-> 1, email |-> AdminEmail, name |-> "Admin",
                  password |-> AdminPassword, role |-> "admin", created_at |-> 0]}
    /\ tasks = {}
    /\ notes = {}
    /\ now = 0
    /\ nextOid = 2
    /\ issued = {}
    /\ resp = NoResp
    /\ req = [p \in Procs |-> Idle]

----------------------------------------------------------------------------
(* POST /auth/register *)

UserDoc(oid, email, name, password, t) ==
    [_id |-> oid, email |-> email, name |-> name, password |-> hash_password(password),
     role |-> "user", created_at |-> t]

UserResponse(u) ==
    [id |-> Str(u._id), email |-> u.email, name |-> u.name, role |-> u.role,
     created_at |-> u.created_at]

TokenBody(tok, u) == {[access_token |-> tok, user |-> UserResponse(u)]}

register(email, password, name) ==
    /\ resp = NoResp
    /\ LET arg == [email |-> email, password |-> password, name |-> name] IN
       IF ByEmail(users, email) # {}
       THEN /\ resp' = Response("register", arg, 400, "Email already registered", {})
            /\ UNCHANGED <<users, admins, tasks, notes, now, nextOid, issued, req>>
       ELSE /\ nextOid <= MaxOid
            /\ Cardinality(issued) < MaxTokens
            /\ LET doc == UserDoc(nextOid, email, name, password, now)
                   tok == create_access_token(email, "user", now)
               IN /\ users' = users \cup {doc}
                  /\ issued' = issued \cup {[tok |-> tok, to |-> doc._id]}
                  /\ resp' = Response("register", arg, 200, "", TokenBody(tok, doc))
            /\ nextOid' = nextOid + 1
            /\ UNCHANGED <<admins, tasks, notes, req, now>>

----------------------------------------------------------------------------
(* POST /auth/login *)

\* user = users.find_one(email) or admins.find_one(email)
LoginCandidates(email) ==
    IF ByEmail(users, email) # {} THEN ByEmail(users, email) ELSE ByEmail(admins, email)

PasswordMatches(user, password) ==
    IF user.role = "admin" THEN password = user.password
    ELSE verify_password(password, user.password)

LoginNotFoundNamesCause(arg) == Response("login", arg, 401, "User not found", {})

LoginNotFound(arg) == Response("login", arg, 401, "Invalid credentials", {})

LoginBadPassword(arg) == Response("login", arg, 401, "Invalid credentials", {})

login(email, password) ==
    /\ resp = NoResp
    /\ LET arg == [email |-> email, password |-> password] IN
       IF LoginCandidates(email) = {}
       THEN /\ resp' = LoginNotFound(arg)
            /\ UNCHANGED <<users, admins, tasks, notes, now, nextOid, issued, req>>
       ELSE \E user \in LoginCandidates(email) :
           IF ~PasswordMatches(user, password)
           THEN /\ resp' = LoginBadPassword(arg)
                /\ UNCHANGED <<users, admins, tasks, notes, now, nextOid, issued, req>>
           ELSE /\ LET tok == create_access_token(user.email, user.role, now)
                   IN /\ issued' = issued \cup {[tok |-> tok, to |-> user._id]}
                      /\ resp' = Response("login", arg, 200, "", TokenBody(tok, user))
                /\ Cardinality(issued') <= MaxTokens
                /\ UNCHANGED <<users, admins, tasks, notes, now, nextOid, req>>

----------------------------------------------------------------------------
(* Shared by the task and note handlers *)

\* find({"user_id": user_id})
OwnedBy(coll, user_id) == {d \in coll : d.user_id = user_id}

FindOwnedAnyUser(coll, oid, user_id) == {d \in coll : d._id = oid}

\* find_one({"_id": obj_id, "user_id": user_id})
FindOwned(coll, oid, user_id) == {d \in coll : d._id = oid /\ d.user_id = user_id}

\* find_one({"_id": obj_id})
ById(coll, oid) == {d \in coll : d._id = oid}

\* validate_object_id: "ok" or the detail of the 400 it raises
validate_object_id(s) ==
    IF s = Undefined THEN "Invalid ID provided"
    ELSE IF ~IsValidOid(s) THEN "Invalid ID format"
    ELSE "ok"

UpdateDataKeepsTime(body, t) == body

\* update_data = body.model_dump(exclude_unset=True); update_data["updated_at"] = now
UpdateData(body, t) == ("updated_at" :> t) @@ body

\* {"$set": update_data} applied to a document
SetFields(doc, update_data) ==
    [f \in DOMAIN doc |-> IF f \in DOMAIN update_data THEN update_data[f] ELSE doc[f]]

\* update_one({"_id": obj_id}, {"$set": update_data})
UpdateById(coll, oid, update_data) ==
    {IF d._id = oid THEN SetFields(d, update_data) ELSE d : d \in coll}

NotFound(op, arg, what) == Response(op, arg, 404, what, {})

BadRequest(op, arg, detail) == Response(op, arg, 400, detail, {})

----------------------------------------------------------------------------
(* /tasks *)

TaskCreates ==
    {[title |-> "T1", description |-> "D1", status |-> "todo", priority |-> "medium"]}

TaskUpdates == {<<>>, ("title" :> "T2") @@ ("status" :> "completed")}

TaskDoc(oid, data, user_id, created, updated) ==
    [_id |-> oid, title |-> data.title, description |-> data.description,
     status |-> data.status, priority |-> data.priority, user_id |-> user_id,
     created_at |-> created, updated_at |-> updated]

get_tasks(tok) ==
    /\ resp = NoResp
    /\ \E cu \in get_current_user(tok) :
           /\ resp' = IF ~cu.ok THEN AuthFailed("get_tasks", NoArg)
                      ELSE Response("get_tasks", NoArg, 200, "", OwnedBy(tasks, cu.user_id))
           /\ UNCHANGED <<users, admins, tasks, notes, now, nextOid, issued, req>>

get_task(tok, s) ==
    /\ resp = NoResp
    /\ \E cu \in get_current_user(tok) :
           /\ resp' = IF ~cu.ok THEN AuthFailed("get_task", s)
                      ELSE IF validate_object_id(s) # "ok"
                           THEN BadRequest("get_task", s, validate_object_id(s))
                      ELSE IF FindOwned(tasks, ObjectId(s), cu.user_id) = {}
                           THEN NotFound("get_task", s, "Task not found")
                      ELSE Response("get_task", s, 200, "", FindOwned(tasks, ObjectId(s), cu.user_id))
           /\ UNCHANGED <<users, admins, tasks, notes, now, nextOid, issued, req>>

create_task(tok, data) ==
    /\ resp = NoResp
    /\ \E cu \in get_current_user(tok) :
           IF ~cu.ok
           THEN /\ resp' = AuthFailed("create_task", data)
                /\ UNCHANGED <<users, admins, tasks, notes, now, nextOid, issued, req>>
           ELSE /\ nextOid <= MaxOid
                /\ LET doc == TaskDoc(nextOid, data, cu.user_id, now, now)
                   IN /\ tasks' = tasks \cup {doc}
                      /\ resp' = Response("create_task", data, 200, "", {doc})
                /\ nextOid' = nextOid + 1
                /\ UNCHANGED <<users, admins, notes, issued, req, now>>

update_task(tok, s, body) ==
    /\ resp = NoResp
    /\ \E cu \in get_current_user(tok) :
           LET arg == [id |-> s, body |-> body] IN
           IF ~cu.ok \/ validate_object_id(s) # "ok" \/ FindOwned(tasks, ObjectId(s), cu.user_id) = {}
           THEN /\ resp' = IF ~cu.ok THEN AuthFailed("update_task", arg)
                           ELSE IF validate_object_id(s) # "ok"
                                THEN BadRequest("update_task", arg, validate_object_id(s))
                           ELSE NotFound("update_task", arg, "Task not found")
                /\ UNCHANGED <<users, admins, tasks, notes, now, nextOid, issued, req>>
           ELSE /\ tasks' = UpdateById(tasks, ObjectId(s), UpdateData(body, now))
                /\ resp' = Response("update_task", arg, 200, "", ById(tasks', ObjectId(s)))
                /\ UNCHANGED <<users, admins, notes, now, nextOid, issued, req>>

delete_task(tok, s) ==
    /\ resp = NoResp
    /\ \E cu \in get_current_user(tok) :
           IF ~cu.ok \/ validate_object_id(s) # "ok" \/ FindOwned(tasks, ObjectId(s), cu.user_id) = {}
           THEN /\ resp' = IF ~cu.ok THEN AuthFailed("delete_task", s)
                           ELSE IF validate_object_id(s) # "ok"
                                THEN BadRequest("delete_task", s, validate_object_id(s))
                           ELSE NotFound("delete_task", s, "Task not found")
                /\ UNCHANGED <<users, admins, tasks, notes, now, nextOid, issued, req>>
           ELSE /\ tasks' = tasks \ FindOwned(tasks, ObjectId(s), cu.user_id)
                /\ resp' = Response("delete_task", s, 200, "Task deleted successfully", {})
                /\ UNCHANGED <<users, admins, notes, now, nextOid, issued, req>>

----------------------------------------------------------------------------
(* /notes *)

NoteCreates == {[title |-> "N1", content |-> "C1", tags |-> <<>>]}

NoteUpdates == {<<>>, ("content" :> "C2") @@ ("tags" :> <<"t">>)}

NoteDoc(oid, data, user_id, created, updated) ==
    [_id |-> oid, title |-> data.title, content |-> data.content, tags |-> data.tags,
     user_id |-> user_id, created_at |-> created, updated_at |-> updated]

get_notes(tok) ==
    /\ resp = NoResp
    /\ \E cu \in get_current_user(tok) :
           /\ resp' = IF ~cu.ok THEN AuthFailed("get_notes", NoArg)
                      ELSE Response("get_notes", NoArg, 200, "", OwnedBy(notes, cu.user_id))
           /\ UNCHANGED <<users, admins, tasks, notes, now, nextOid, issued, req>>

get_note(tok, s) ==
    /\ resp = NoResp
    /\ \E cu \in get_current_user(tok) :
           /\ resp' = IF ~cu.ok THEN AuthFailed("get_note", s)
                      ELSE IF validate_object_id(s) # "ok"
                           THEN BadRequest("get_note", s, validate_object_id(s))
                      ELSE IF FindOwned(notes, ObjectId(s), cu.user_id) = {}
                           THEN NotFound("get_note", s, "Note not found")
                      ELSE Response("get_note", s, 200, "", FindOwned(notes, ObjectId(s), cu.user_id))
           /\ UNCHANGED <<users, admins, tasks, notes, now, nextOid, issued, req>>

create_note(tok, data) ==
    /\ resp = NoResp
    /\ \E cu \in get_current_user(tok) :
           IF ~cu.ok
           THEN /\ resp' = AuthFailed("create_note", data)
                /\ UNCHANGED <<users, admins, tasks, notes, now, nextOid, issued, req>>
           ELSE /\ nextOid <= MaxOid
                /\ LET doc == NoteDoc(nextOid, data, cu.user_id, now, now)
                   IN /\ notes' = notes \cup {doc}
                      /\ resp' = Response("create_note", data, 200, "", {doc})
                /\ nextOid' = nextOid + 1
                /\ UNCHANGED <<users, admins, tasks, issued, req, now>>

update_note(tok, s, body) ==
    /\ resp = NoResp
    /\ \E cu \in get_current_user(tok) :
           LET arg == [id |-> s, body |-> body] IN
           IF ~cu.ok \/ validate_object_id(s) # "ok" \/ FindOwned(notes, ObjectId(s), cu.user_id) = {}
           THEN /\ resp' = IF ~cu.ok THEN AuthFailed("update_note", arg)
                           ELSE IF validate_object_id(s) # "ok"
                                THEN BadRequest("update_note", arg, validate_object_id(s))
                           ELSE NotFound("update_note", arg, "Note not found")
                /\ UNCHANGED <<users, admins, tasks, notes, now, nextOid, issued, req>>
           ELSE /\ notes' = UpdateById(notes, ObjectId(s), UpdateData(body, now))
                /\ resp' = Response("update_note", arg, 200, "", ById(notes', ObjectId(s)))
                /\ UNCHANGED <<users, admins, tasks, now, nextOid, issued, req>>

delete_note(tok, s) ==
    /\ resp = NoResp
    /\ \E cu \in get_current_user(tok) :
           IF ~cu.ok \/ validate_object_id(s) # "ok" \/ FindOwned(notes, ObjectId(s), cu.user_id) = {}
           THEN /\ resp' = IF ~cu.ok THEN AuthFailed("delete_note", s)
                           ELSE IF validate_object_id(s) # "ok"
                                THEN BadRequest("delete_note", s, validate_object_id(s))
                           ELSE NotFound("delete_note", s, "Note not found")
                /\ UNCHANGED <<users, admins, tasks, notes, now, nextOid, issued, req>>
           ELSE /\ notes' = notes \ FindOwned(notes, ObjectId(s), cu.user_id)
                /\ resp' = Response("delete_note", s, 200, "Note deleted successfully", {})
                /\ UNCHANGED <<users, admins, tasks, now, nextOid, issued, req>>

----------------------------------------------------------------------------
(* /users *)

IsAdminAnyRole(cu) == TRUE

\* current_user["role"] != "admin" raises 403
IsAdmin(cu) == cu.role = "admin"

Forbidden(op, arg) == Response(op, arg, 403, "Not authorized", {})

get_users(tok) ==
    /\ resp = NoResp
    /\ \E cu \in get_current_user(tok) :
           /\ resp' = IF ~cu.ok THEN AuthFailed("get_users", NoArg)
                      ELSE IF ~IsAdmin(cu) THEN Forbidden("get_users", NoArg)
                      ELSE Response("get_users", NoArg, 200, "", users)
           /\ UNCHANGED <<users, admins, tasks, notes, now, nextOid, issued, req>>

\* tasks.delete_many({"user_id": user_id}): the filter is the path string as received
DeleteMany(coll, user_id) == {d \in coll : d.user_id # user_id}

delete_user(tok, s) ==
    /\ resp = NoResp
    /\ \E cu \in get_current_user(tok) :
           IF \/ ~cu.ok
              \/ ~IsAdmin(cu)
              \/ validate_object_id(s) # "ok"
              \/ cu.user_id = s
              \/ ById(users, ObjectId(s)) = {}
           THEN /\ resp' = IF ~cu.ok THEN AuthFailed("delete_user", s)
                           ELSE IF ~IsAdmin(cu) THEN Forbidden("delete_user", s)
                           ELSE IF validate_object_id(s) # "ok"
                                THEN BadRequest("delete_user", s, validate_object_id(s))
                           ELSE IF cu.user_id = s
                                THEN BadRequest("delete_user", s, "Cannot delete your own account")
                           ELSE NotFound("delete_user", s, "User not found")
                /\ UNCHANGED <<users, admins, tasks, notes, now, nextOid, issued, req>>
           ELSE /\ users' = users \ ById(users, ObjectId(s))
                /\ tasks' = DeleteMany(tasks, s)
                /\ notes' = DeleteMany(notes, s)
                /\ resp' = Response("delete_user", s, 200, "User deleted successfully", {})
                /\ UNCHANGED <<admins, now, nextOid, issued, req>>

----------------------------------------------------------------------------
(* /profile *)

UserUpdates == {<<>>} \cup {"email" :> e : e \in Emails}

get_profile(tok) ==
    /\ resp = NoResp
    /\ \E cu \in get_current_user(tok) :
           /\ resp' = IF ~cu.ok THEN AuthFailed("get_profile", NoArg)
                      ELSE IF ByEmail(Collection(cu.role), cu.email) = {}
                           THEN NotFound("get_profile", NoArg, "User not found")
                      ELSE Response("get_profile", NoArg, 200, "",
                                    {UserResponse(u) : u \in ByEmail(Collection(cu.role), cu.email)})
           /\ UNCHANGED <<users, admins, tasks, notes, now, nextOid, issued, req>>

\* user_data.email and user_data.email != current_user["email"]
ChangesEmail(body, cu) == "email" \in DOMAIN body /\ body["email"] # cu.email

\* user_data.email or current_user["email"]
EmailAfter(body, cu) == IF "email" \in DOMAIN body THEN body["email"] ELSE cu.email

\* update_one({"email": email}, {"$set": update_data}) on the chosen match
UpdateOne(coll, doc, update_data) == (coll \ {doc}) \cup {SetFields(doc, update_data)}

update_profile(tok, body) ==
    /\ resp = NoResp
    /\ \E cu \in get_current_user(tok) :
           IF ~cu.ok \/ (ChangesEmail(body, cu) /\ ByEmail(Collection(cu.role), body["email"]) # {})
           THEN /\ resp' = IF ~cu.ok THEN AuthFailed("update_profile", body)
                           ELSE BadRequest("update_profile", body, "Email already registered")
                /\ UNCHANGED <<users, admins, tasks, notes, now, nextOid, issued, req>>
           ELSE \E doc \in ByEmail(Collection(cu.role), cu.email) :
                LET coll == UpdateOne(Collection(cu.role), doc, body) IN
                /\ users' = IF cu.role = "admin" THEN users ELSE coll
                /\ admins' = IF cu.role = "admin" THEN coll ELSE admins
                /\ \E updated \in ByEmail(coll, EmailAfter(body, cu)) :
                       resp' = Response("update_profile", body, 200, "", {UserResponse(updated)})
                /\ UNCHANGED <<tasks, notes, now, nextOid, issued, req>>

change_password(tok, old, new) ==
    /\ resp = NoResp
    /\ \E cu \in get_current_user(tok) :
           LET arg == [old_password |-> old, new_password |-> new] IN
           IF ~cu.ok
           THEN /\ resp' = AuthFailed("change_password", arg)
                /\ UNCHANGED <<users, admins, tasks, notes, now, nextOid, issued, req>>
           ELSE \E doc \in ByEmail(Collection(cu.role), cu.email) :
                IF ~PasswordMatches([role |-> cu.role, password |-> doc.password], old)
                THEN /\ resp' = BadRequest("change_password", arg, "Current password is incorrect")
                     /\ UNCHANGED <<users, admins, tasks, notes, now, nextOid, issued, req>>
                ELSE /\ users' = IF cu.role = "admin" THEN users
                                 ELSE UpdateOne(users, doc, "password" :> hash_password(new))
                     /\ admins' = IF cu.role = "admin"
                                  THEN UpdateOne(admins, doc, "password" :> new)
                                  ELSE admins
                     /\ resp' = Response("change_password", arg, 200, "Password updated successfully", {})
                     /\ UNCHANGED <<tasks, notes, now, nextOid, issued, req>>

----------------------------------------------------------------------------
(* Time passes between two requests: the clock, read in minutes, moves on   *)
(* by a token lifetime.  Two reads with no Tick between them return the    *)
(* same time.                                                              *)

Tick ==
    /\ resp = NoResp
    /\ now < MaxTicks * JWT_EXPIRATION
    /\ now' = now + JWT_EXPIRATION
    /\ UNCHANGED <<users, admins, tasks, notes, nextOid, issued, resp, req>>

(* The response reaches the client; the next request can be served. *)

Reply ==
    /\ resp # NoResp
    /\ resp' = NoResp
    /\ UNCHANGED <<users, admins, tasks, notes, now, nextOid, issued, req>>

----------------------------------------------------------------------------
Handler ==
    \/ \E email \in Emails, password \in Passwords, name \in Names : register(email, password, name)
    \/ \E email \in Emails, password \in Passwords : login(email, password)
    \/ \E tok \in Tokens : get_tasks(tok)
    \/ \E tok \in Tokens, s \in IdStrings(tasks) : get_task(tok, s)
    \/ \E tok \in Tokens, data \in TaskCreates : create_task(tok, data)
    \/ \E tok \in Tokens, s \in IdStrings(tasks), body \in TaskUpdates : update_task(tok, s, body)
    \/ \E tok \in Tokens, s \in IdStrings(tasks) : delete_task(tok, s)
    \/ \E tok \in Tokens : get_notes(tok)
    \/ \E tok \in Tokens, s \in IdStrings(notes) : get_note(tok, s)
    \/ \E tok \in Tokens, data \in NoteCreates : create_note(tok, data)
    \/ \E tok \in Tokens, s \in IdStrings(notes), body \in NoteUpdates : update_note(tok, s, body)
    \/ \E tok \in Tokens, s \in IdStrings(notes) : delete_note(tok, s)
    \/ \E tok \in Tokens : get_users(tok)
    \/ \E tok \in Tokens, s \in IdStrings(users \cup admins) : delete_user(tok, s)
    \/ \E tok \in Tokens : get_profile(tok)
    \/ \E tok \in Tokens, body \in UserUpdates : update_profile(tok, body)
    \/ \E tok \in Tokens, old \in Passwords, new \in Passwords : change_password(tok, old, new)

Next ==
    \/ Handler
    \/ Tick
    \/ Reply

Spec == Init /\ [][Next]_vars

----------------------------------------------------------------------------
(* Properties of Spec *)

\* A step in which a handler answers a request of one of the given operations
Answers(ops) == resp = NoResp /\ resp'.op \in ops

\* The token resolves
Resolves(tok) == \A cu \in get_current_user(tok) : cu.ok

\* The token resolves, and to a caller other than user_id
ResolvesToOther(tok, user_id) ==
    \A cu \in get_current_user(tok) : cu.ok /\ cu.user_id # user_id

\* C1: a task or note of account A is hidden from every authenticated caller
\* whose resolved user_id is not A's: get, update and delete answer 404 and
\* leave the stored records as they are, and the caller's list holds only
\* records of the caller.
C1_OtherAccountsRecordsHidden ==
    [][ /\ Answers({"get_task", "delete_task"}) =>
            \A tok \in Tokens : \A t \in tasks :
                (ResolvesToOther(tok, t.user_id) /\ IsValidOid(resp'.arg)
                    /\ ObjectId(resp'.arg) = t._id
                    /\ (get_task(tok, resp'.arg) \/ delete_task(tok, resp'.arg)))
                => (resp'.status = 404 /\ resp'.body = {} /\ tasks' = tasks)
        /\ Answers({"update_task"}) =>
            \A tok \in Tokens : \A t \in tasks :
                (ResolvesToOther(tok, t.user_id) /\ IsValidOid(resp'.arg.id)
                    /\ ObjectId(resp'.arg.id) = t._id
                    /\ update_task(tok, resp'.arg.id, resp'.arg.body))
                => (resp'.status = 404 /\ resp'.body = {} /\ tasks' = tasks)
        /\ Answers({"get_note", "delete_note"}) =>
            \A tok \in Tokens : \A n \in notes :
                (ResolvesToOther(tok, n.user_id) /\ IsValidOid(resp'.arg)
                    /\ ObjectId(resp'.arg) = n._id
                    /\ (get_note(tok, resp'.arg) \/ delete_note(tok, resp'.arg)))
                => (resp'.status = 404 /\ resp'.body = {} /\ notes' = notes)
        /\ Answers({"update_note"}) =>
            \A tok \in Tokens : \A n \in notes :
                (ResolvesToOther(tok, n.user_id) /\ IsValidOid(resp'.arg.id)
                    /\ ObjectId(resp'.arg.id) = n._id
                    /\ update_note(tok, resp'.arg.id, resp'.arg.body))
                => (resp'.status = 404 /\ resp'.body = {} /\ notes' = notes)
        /\ Answers({"get_tasks", "get_notes"}) =>
            \A tok \in Tokens : \A cu \in get_current_user(tok) :
                (cu.ok /\ (get_tasks(tok) \/ get_notes(tok)))
                => \A d \in resp'.body : d.user_id = cu.user_id
      ]_vars

\* a caller was answered 404 for the id of a task that is in the store
C1_Witness ==
    /\ resp.op \in {"get_task", "delete_task"}
    /\ resp.status = 404
    /\ IsValidOid(resp.arg)
    /\ ById(tasks, ObjectId(resp.arg)) # {}

\* C2: get_users and delete_user answer 403 to a caller whose token resolves
\* in the users store, and such a call deletes nothing; a call that passes
\* the role check carries a token of role admin that resolves in the admins
\* store; and no token of role admin is ever issued to a users account.
C2_AdminOnlyEndpoints ==
    [][ /\ Answers({"get_users", "delete_user"}) =>
            \A tok \in Tokens :
                (IF resp'.op = "get_users" THEN get_users(tok) ELSE delete_user(tok, resp'.arg))
                => /\ (tok.role # "admin" /\ Resolves(tok))
                        => (resp'.status = 403 /\ users' = users
                                /\ tasks' = tasks /\ notes' = notes)
                   /\ resp'.status \notin {401, 403}
                        => (tok.role = "admin" /\ ByEmail(admins, tok.email) # {})
        /\ \A i \in issued' : i.tok.role = "admin" => i.to \in {a._id : a \in admins}
      ]_vars

\* a users account asked to delete an existing user and was answered 403
C2_Witness ==
    /\ resp.op = "delete_user"
    /\ resp.status = 403
    /\ IsValidOid(resp.arg)
    /\ ById(users, ObjectId(resp.arg)) # {}

\* The accounts a token was issued to
IssuedTo(tok) == {i.to : i \in {j \in issued : j.tok = tok}}

\* A protected call made with the token
ProtectedCall(tok) ==
    \/ get_tasks(tok) \/ get_notes(tok) \/ get_users(tok) \/ get_profile(tok)
    \/ \E s \in IdStrings(tasks) : get_task(tok, s) \/ delete_task(tok, s)
    \/ \E s \in IdStrings(notes) : get_note(tok, s) \/ delete_note(tok, s)
    \/ \E s \in IdStrings(tasks), body \in TaskUpdates : update_task(tok, s, body)
    \/ \E s \in IdStrings(notes), body \in NoteUpdates : update_note(tok, s, body)
    \/ \E data \in TaskCreates : create_task(tok, data)
    \/ \E data \in NoteCreates : create_note(tok, data)
    \/ \E s \in IdStrings(users \cup admins) : delete_user(tok, s)
    \/ \E body \in UserUpdates : update_profile(tok, body)
    \/ \E old \in Passwords, new \in Passwords : change_password(tok, old, new)

\* C3: a protected call that presents a token issued to a user account (and
\* to no other account) which delete_user has removed is answered 401.
C3_DeletedAccountsTokenRejected ==
    [][ (resp = NoResp /\ resp' # NoResp) =>
            \A tok \in Tokens :
                (tok.role = "user" /\ IssuedTo(tok) # {}
                    /\ IssuedTo(tok) \cap {u._id : u \in users} = {}
                    /\ ProtectedCall(tok))
                => resp'.status = 401
      ]_vars

\* C5: when delete_user answers success for user U, U's account is gone, no
\* task and no note with U's id as user_id remains, and the tasks and notes
\* of every other user are as before.
C5_DeleteUserCascades ==
    [][ (Answers({"delete_user"}) /\ resp'.status = 200) =>
            LET uid == Str(ObjectId(resp'.arg)) IN
            /\ ById(users', ObjectId(resp'.arg)) = {}
            /\ OwnedBy(tasks', uid) = {}
            /\ OwnedBy(notes', uid) = {}
            /\ tasks' \ OwnedBy(tasks', uid) = tasks \ OwnedBy(tasks, uid)
            /\ notes' \ OwnedBy(notes', uid) = notes \ OwnedBy(notes, uid)
      ]_vars

\* The effect of a successful update on the record: the fields of the body
\* are overwritten, the others but updated_at are kept
UpdatedAsAsked(old, new, body) ==
    /\ DOMAIN new = DOMAIN old
    /\ \A f \in DOMAIN body : new[f] = body[f]
    /\ \A f \in DOMAIN old \ (DOMAIN body \cup {"updated_at"}) : new[f] = old[f]

\* A successful update_task or update_note and the record before and after it
UpdateSteps(P(_, _, _)) ==
    /\ (Answers({"update_task"}) /\ resp'.status = 200) =>
            \A old \in ById(tasks, ObjectId(resp'.arg.id)) :
                /\ tasks' \ ById(tasks', old._id) = tasks \ {old}
                /\ resp'.body = ById(tasks', old._id)
                /\ \E new \in tasks' : new._id = old._id /\ P(old, new, resp'.arg.body)
    /\ (Answers({"update_note"}) /\ resp'.status = 200) =>
            \A old \in ById(notes, ObjectId(resp'.arg.id)) :
                /\ notes' \ ById(notes', old._id) = notes \ {old}
                /\ resp'.body = ById(notes', old._id)
                /\ \E new \in notes' : new._id = old._id /\ P(old, new, resp'.arg.body)

StrictlyLater(old, new, body) ==
    UpdatedAsAsked(old, new, body) /\ new.updated_at > old.updated_at

AtClockReading(old, new, body) ==
    /\ UpdatedAsAsked(old, new, body)
    /\ new.updated_at = now
    /\ new.updated_at >= old.updated_at

\* C7 as stated: a successful update overwrites exactly the fields of the
\* body, keeps the others, and sets updated_at strictly later than it was.
C7_UpdatedAtStrictlyLater == [][UpdateSteps(StrictlyLater)]_vars

\* C7 as amended: a successful update overwrites exactly the fields of the
\* body, keeps the others (user_id and created_at among them), and sets
\* updated_at to the time the handler reads, which for requests served one
\* after the other is not earlier than the previous updated_at.
C7_PartialUpdate == [][UpdateSteps(AtClockReading)]_vars

\* an update was answered with a record whose title changed while its
\* description, its owner and its creation time are those it was created with,
\* after the clock had moved on
C7_Witness ==
    /\ resp.op = "update_task"
    /\ resp.status = 200
    /\ "title" \in DOMAIN resp.arg.body
    /\ \E t \in resp.body :
        /\ t \in tasks
        /\ t.title = "T2" /\ t.description = "D1"
        /\ t.updated_at > t.created_at

\* An account holds the email
EmailKnown(email) == ByEmail(users \cup admins, email) # {}

\* The password is the password of no account that holds the email
WrongPassword(email, password) ==
    \A u \in ByEmail(users \cup admins, email) : ~PasswordMatches(u, password)

\* C8: login with a wrong password for an existing email and login for an
\* email of no account get the same answer, 401 "Invalid credentials" with
\* no body, and neither issues a token.
C8_LoginFailuresAlike ==
    [][ (Answers({"login"}) /\ WrongPassword(resp'.arg.email, resp'.arg.password)) =>
            /\ resp'.status = 401
            /\ resp'.detail = "Invalid credentials"
            /\ resp'.body = {}
            /\ issued' = issued
      ]_vars

\* a login for an existing email with a wrong password was refused
C8_Witness ==
    /\ resp.op = "login"
    /\ resp.status = 401
    /\ EmailKnown(resp.arg.email)
    /\ WrongPassword(resp.arg.email, resp.arg.password)

\* C9: a token resolves only to an account it was issued to, or not at all.
C9_TokenResolvesToItsAccount ==
    \A i \in issued : \A cu \in get_current_user(i.tok) :
        cu.ok => cu.user_id \in {Str(a) : a \in IssuedTo(i.tok)}

\* C10: login with the email and the password of an account of the admins
\* store succeeds and issues a token of role admin.
C10_AdminCanLogIn ==
    [][ Answers({"login"}) =>
            \A a \in admins :
                (resp'.arg.email = a.email /\ resp'.arg.password = a.password)
                => /\ resp'.status = 200
                   /\ \A b \in resp'.body : b.access_token.role = "admin"
      ]_vars

----------------------------------------------------------------------------
(* SpecAsync: the handlers as coroutines.  A worker runs a handler from one *)
(* await on the store to the next in one step; between two steps of a      *)
(* worker the other worker may take steps.  req[w].pc names the await the  *)
(* worker is at; when the handler returns or raises, resp is its response  *)
(* and the worker is idle again.  The clock stands still meanwhile.        *)

\* The path parameters tried on delete_user
AsyncIds == {Str(n) : n \in {u._id : u \in users} \cup {nextOid}}

AsyncRegisters == {[email |-> "a@x.com", password |-> "p", name |-> "A"]}

AsyncLogins == {[email |-> AdminEmail, password |-> AdminPassword]}

\* The bearer tokens presented in SpecAsync: the ones the server has issued
AsyncTokens == {i.tok : i \in issued}

\* The path parameters tried on update and delete of a task or note: the ids
\* of the records in the store, as the server printed them
AsyncRecordIds(coll) == {Str(d._id) : d \in coll}

\* The bodies sent with update_task and update_note in SpecAsync
AsyncTaskUpdates == {("title" :> "T2") @@ ("status" :> "completed")}

AsyncNoteUpdates == {("content" :> "C2") @@ ("tags" :> <<"t">>)}

\* The path parameter of a request on one task or note
PathId(r) == IF r.op \in {"update_task", "update_note"} THEN r.arg.id ELSE r.arg

\* The requests a client may send in SpecAsync
AsyncRequests ==
    {[op |-> "register", tok |-> Garbage, arg |-> a] : a \in AsyncRegisters}
    \cup {[op |-> "login", tok |-> Garbage, arg |-> a] : a \in AsyncLogins}
    \cup {[op |-> "create_task", tok |-> t, arg |-> a] : t \in AsyncTokens, a \in TaskCreates}
    \cup {[op |-> "create_note", tok |-> t, arg |-> a] : t \in AsyncTokens, a \in NoteCreates}
    \cup {[op |-> "delete_user", tok |-> t, arg |-> a] : t \in AsyncTokens, a \in AsyncIds}
    \cup {[op |-> "update_profile", tok |-> t, arg |-> a] : t \in AsyncTokens, a \in UserUpdates}
    \cup {[op |-> "update_task", tok |-> t, arg |-> [id |-> s, body |-> b]] :
                t \in AsyncTokens, s \in AsyncRecordIds(tasks), b \in AsyncTaskUpdates}
    \cup {[op |-> "update_note", tok |-> t, arg |-> [id |-> s, body |-> b]] :
                t \in AsyncTokens, s \in AsyncRecordIds(notes), b \in AsyncNoteUpdates}
    \cup {[op |-> "delete_task", tok |-> t, arg |-> s] : t \in AsyncTokens, s \in AsyncRecordIds(tasks)}
    \cup {[op |-> "delete_note", tok |-> t, arg |-> s] : t \in AsyncTokens, s \in AsyncRecordIds(notes)}

Goto(w, pc) == req' = [req EXCEPT ![w].pc = pc] /\ UNCHANGED resp

Done(w, response) == req' = [req EXCEPT ![w] = Idle] /\ resp' = response

\* The event loop hands a request to an idle worker; the handler runs to its
\* first await: users.find_one in register and login, the find_one of
\* get_current_user in the others.  Of two idle workers the first takes it.
Receive(w) ==
    /\ req[w].pc = "idle"
    /\ \A v \in Procs : v < w => req[v].pc # "idle"
    /\ \E r \in AsyncRequests :
        req' = [req EXCEPT ![w] =
                    [pc |-> IF r.op \in {"register", "login"} THEN "users_find" ELSE "auth",
                     op |-> r.op, tok |-> r.tok, arg |-> r.arg,
                     cu |-> Unauthenticated, at |-> 0]]
    /\ UNCHANGED <<users, admins, tasks, notes, now, nextOid, issued, resp>>

\* The await of get_current_user returns, and the handler runs to its next
\* await: the insert_one of create_task and create_note (the document and
\* its timestamps are made before it), the delete_one of delete_user (after
\* the role check, the id check and the self check), the first store call of
\* update_profile, the find_one of update_task and update_note and the
\* delete_one of delete_task and delete_note (after the id check).
AfterAuth(w, cu) ==
    LET r == req[w] IN
    IF ~cu.ok THEN Done(w, AuthFailed(r.op, r.arg))
    ELSE IF r.op = "delete_user" /\ ~IsAdmin(cu) THEN Done(w, Forbidden(r.op, r.arg))
    ELSE IF r.op = "delete_user" /\ validate_object_id(r.arg) # "ok"
         THEN Done(w, BadRequest(r.op, r.arg, validate_object_id(r.arg)))
    ELSE IF r.op = "delete_user" /\ cu.user_id = r.arg
         THEN Done(w, BadRequest(r.op, r.arg, "Cannot delete your own account"))
    ELSE IF r.op \in {"update_task", "update_note", "delete_task", "delete_note"}
            /\ validate_object_id(PathId(r)) # "ok"
         THEN Done(w, BadRequest(r.op, r.arg, validate_object_id(PathId(r))))
    ELSE /\ req' = [req EXCEPT ![w].cu = cu, ![w].at = now,
                            ![w].pc = CASE r.op = "delete_user" -> "delete_one"
                                        [] r.op \in {"update_task", "update_note"} -> "find_owned"
                                        [] r.op \in {"delete_task", "delete_note"} -> "delete_owned"
                                        [] r.op = "update_profile" /\ ChangesEmail(r.arg, cu)
                                                -> "find_existing"
                                        [] r.op = "update_profile" -> "update_one"
                                        [] OTHER -> "insert_one"]
         /\ UNCHANGED resp

Authenticate(w) ==
    /\ req[w].pc = "auth"
    /\ \E cu \in get_current_user(req[w].tok) : AfterAuth(w, cu)
    /\ UNCHANGED <<users, admins, tasks, notes, now, nextOid, issued>>

\* register: existing = await users.find_one({"email": email})
register_find(w) ==
    /\ req[w].pc = "users_find" /\ req[w].op = "register"
    /\ IF ByEmail(users, req[w].arg.email) # {}
       THEN Done(w, Response("register", req[w].arg, 400, "Email already registered", {}))
       ELSE req' = [req EXCEPT ![w].pc = "insert_one", ![w].at = now] /\ UNCHANGED resp
    /\ UNCHANGED <<users, admins, tasks, notes, now, nextOid, issued>>

\* register: result = await users.insert_one(doc), then the token
register_insert(w) ==
    /\ req[w].pc = "insert_one" /\ req[w].op = "register"
    /\ nextOid <= MaxOid
    /\ Cardinality(issued) < MaxTokens
    /\ LET a == req[w].arg
           doc == UserDoc(nextOid, a.email, a.name, a.password, req[w].at)
           tok == create_access_token(a.email, "user", now)
       IN /\ users' = users \cup {doc}
          /\ issued' = issued \cup {[tok |-> tok, to |-> doc._id]}
          /\ Done(w, Response("register", a, 200, "", TokenBody(tok, doc)))
    /\ nextOid' = nextOid + 1
    /\ UNCHANGED <<admins, tasks, notes, now>>

\* login: what follows the find_one that returned user
LoginAs(w, user) ==
    IF ~PasswordMatches(user, req[w].arg.password)
    THEN /\ Done(w, LoginBadPassword(req[w].arg))
         /\ UNCHANGED issued
    ELSE LET tok == create_access_token(user.email, user.role, now) IN
         /\ issued' = issued \cup {[tok |-> tok, to |-> user._id]}
         /\ Cardinality(issued') <= MaxTokens
         /\ Done(w, Response("login", req[w].arg, 200, "", TokenBody(tok, user)))

\* login: await users.find_one({"email": email})
login_users_find(w) ==
    /\ req[w].pc = "users_find" /\ req[w].op = "login"
    /\ IF ByEmail(users, req[w].arg.email) = {}
       THEN Goto(w, "admins_find") /\ UNCHANGED issued
       ELSE \E user \in ByEmail(users, req[w].arg.email) : LoginAs(w, user)
    /\ UNCHANGED <<users, admins, tasks, notes, now, nextOid>>

\* login: await admins.find_one({"email": email})
login_admins_find(w) ==
    /\ req[w].pc = "admins_find"
    /\ IF ByEmail(admins, req[w].arg.email) = {}
       THEN Done(w, LoginNotFound(req[w].arg)) /\ UNCHANGED issued
       ELSE \E user \in ByEmail(admins, req[w].arg.email) : LoginAs(w, user)
    /\ UNCHANGED <<users, admins, tasks, notes, now, nextOid>>

\* create_task: result = await tasks.insert_one(doc)
create_task_insert(w) ==
    /\ req[w].pc = "insert_one" /\ req[w].op = "create_task"
    /\ nextOid <= MaxOid
    /\ LET doc == TaskDoc(nextOid, req[w].arg, req[w].cu.user_id, req[w].at, req[w].at)
       IN /\ tasks' = tasks \cup {doc}
          /\ Done(w, Response("create_task", req[w].arg, 200, "", {doc}))
    /\ nextOid' = nextOid + 1
    /\ UNCHANGED <<users, admins, notes, now, issued>>

\* create_note: result = await notes.insert_one(doc)
create_note_insert(w) ==
    /\ req[w].pc = "insert_one" /\ req[w].op = "create_note"
    /\ nextOid <= MaxOid
    /\ LET doc == NoteDoc(nextOid, req[w].arg, req[w].cu.user_id, req[w].at, req[w].at)
       IN /\ notes' = notes \cup {doc}
          /\ Done(w, Response("create_note", req[w].arg, 200, "", {doc}))
    /\ nextOid' = nextOid + 1
    /\ UNCHANGED <<users, admins, tasks, now, issued>>

\* delete_user: result = await users.delete_one({"_id": obj_id})
delete_user_delete_one(w) ==
    /\ req[w].pc = "delete_one"
    /\ IF ById(users, ObjectId(req[w].arg)) = {}
       THEN Done(w, NotFound("delete_user", req[w].arg, "User not found"))
       ELSE Goto(w, "delete_tasks")
    /\ users' = users \ ById(users, ObjectId(req[w].arg))
    /\ UNCHANGED <<admins, tasks, notes, now, nextOid, issued>>

\* delete_user: await tasks.delete_many({"user_id": user_id})
delete_user_delete_tasks(w) ==
    /\ req[w].pc = "delete_tasks"
    /\ tasks' = DeleteMany(tasks, req[w].arg)
    /\ Goto(w, "delete_notes")
    /\ UNCHANGED <<users, admins, notes, now, nextOid, issued>>

\* delete_user: await notes.delete_many({"user_id": user_id})
delete_user_delete_notes(w) ==
    /\ req[w].pc = "delete_notes"
    /\ notes' = DeleteMany(notes, req[w].arg)
    /\ Done(w, Response("delete_user", req[w].arg, 200, "User deleted successfully", {}))
    /\ UNCHANGED <<users, admins, tasks, now, nextOid, issued>>

\* update_profile: existing_user = await db.find_one({"email": user_data.email})
update_profile_find(w) ==
    /\ req[w].pc = "find_existing"
    /\ IF ByEmail(Collection(req[w].cu.role), req[w].arg["email"]) # {}
       THEN Done(w, BadRequest("update_profile", req[w].arg, "Email already registered"))
       ELSE Goto(w, "update_one")
    /\ UNCHANGED <<users, admins, tasks, notes, now, nextOid, issued>>

\* update_profile: await db.update_one({"email": current_user["email"]}, {"$set": ...}),
\* which changes one matching document, or none when none matches any more
update_profile_update(w) ==
    /\ req[w].pc = "update_one"
    /\ LET cu == req[w].cu
           matching == ByEmail(Collection(cu.role), cu.email)
       IN \E coll \in IF matching = {} THEN {Collection(cu.role)}
                      ELSE {UpdateOne(Collection(cu.role), doc, req[w].arg) : doc \in matching} :
            /\ users' = IF cu.role = "admin" THEN users ELSE coll
            /\ admins' = IF cu.role = "admin" THEN coll ELSE admins
    /\ Goto(w, "find_updated")
    /\ UNCHANGED <<tasks, notes, now, nextOid, issued>>

\* update_profile: updated_user = await db.find_one({"email": ...}); the
\* subscript of None raises, which the framework answers with 500
update_profile_read(w) ==
    /\ req[w].pc = "find_updated"
    /\ LET cu == req[w].cu
           found == ByEmail(Collection(cu.role), EmailAfter(req[w].arg, cu))
       IN IF found = {}
          THEN Done(w, Response("update_profile", req[w].arg, 500, "Internal Server Error", {}))
          ELSE \E updated \in found :
                Done(w, Response("update_profile", req[w].arg, 200, "", {UserResponse(updated)}))
    /\ UNCHANGED <<users, admins, tasks, notes, now, nextOid, issued>>

\* update_task: existing_task = await tasks.find_one({"_id": obj_id, "user_id": ...});
\* when it is found the handler builds update_data and runs to update_one
update_task_find(w) ==
    /\ req[w].pc = "find_owned" /\ req[w].op = "update_task"
    /\ IF FindOwned(tasks, ObjectId(req[w].arg.id), req[w].cu.user_id) = {}
       THEN Done(w, NotFound("update_task", req[w].arg, "Task not found"))
       ELSE req' = [req EXCEPT ![w].pc = "update_by_id", ![w].at = now] /\ UNCHANGED resp
    /\ UNCHANGED <<users, admins, tasks, notes, now, nextOid, issued>>

\* update_task: await tasks.update_one({"_id": obj_id}, {"$set": update_data}),
\* which changes the document if it is still there and inserts nothing
update_task_update(w) ==
    /\ req[w].pc = "update_by_id" /\ req[w].op = "update_task"
    /\ tasks' = UpdateById(tasks, ObjectId(req[w].arg.id), UpdateData(req[w].arg.body, req[w].at))
    /\ Goto(w, "read_by_id")
    /\ UNCHANGED <<users, admins, notes, now, nextOid, issued>>

\* update_task: updated_task = await tasks.find_one({"_id": obj_id}); the item
\* assignment on None raises, which the framework answers with 500
update_task_read(w) ==
    /\ req[w].pc = "read_by_id" /\ req[w].op = "update_task"
    /\ IF ById(tasks, ObjectId(req[w].arg.id)) = {}
       THEN Done(w, Response("update_task", req[w].arg, 500, "Internal Server Error", {}))
       ELSE Done(w, Response("update_task", req[w].arg, 200, "",
                             ById(tasks, ObjectId(req[w].arg.id))))
    /\ UNCHANGED <<users, admins, tasks, notes, now, nextOid, issued>>

\* delete_task: result = await tasks.delete_one({"_id": obj_id, "user_id": ...})
delete_task_delete_one(w) ==
    /\ req[w].pc = "delete_owned" /\ req[w].op = "delete_task"
    /\ IF FindOwned(tasks, ObjectId(req[w].arg), req[w].cu.user_id) = {}
       THEN Done(w, NotFound("delete_task", req[w].arg, "Task not found"))
       ELSE Done(w, Response("delete_task", req[w].arg, 200, "Task deleted successfully", {}))
    /\ tasks' = tasks \ FindOwned(tasks, ObjectId(req[w].arg), req[w].cu.user_id)
    /\ UNCHANGED <<users, admins, notes, now, nextOid, issued>>

\* update_note: existing_note = await notes.find_one({"_id": obj_id, "user_id": ...});
\* when it is found the handler builds update_data and runs to update_one
update_note_find(w) ==
    /\ req[w].pc = "find_owned" /\ req[w].op = "update_note"
    /\ IF FindOwned(notes, ObjectId(req[w].arg.id), req[w].cu.user_id) = {}
       THEN Done(w, NotFound("update_note", req[w].arg, "Note not found"))
       ELSE req' = [req EXCEPT ![w].pc = "update_by_id", ![w].at = now] /\ UNCHANGED resp
    /\ UNCHANGED <<users, admins, tasks, notes, now, nextOid, issued>>

\* update_note: await notes.update_one({"_id": obj_id}, {"$set": update_data}),
\* which changes the document if it is still there and inserts nothing
update_note_update(w) ==
    /\ req[w].pc = "update_by_id" /\ req[w].op = "update_note"
    /\ notes' = UpdateById(notes, ObjectId(req[w].arg.id), UpdateData(req[w].arg.body, req[w].at))
    /\ Goto(w, "read_by_id")
    /\ UNCHANGED <<users, admins, tasks, now, nextOid, issued>>

\* update_note: updated_note = await notes.find_one({"_id": obj_id}); the item
\* assignment on None raises, which the framework answers with 500
update_note_read(w) ==
    /\ req[w].pc = "read_by_id" /\ req[w].op = "update_note"
    /\ IF ById(notes, ObjectId(req[w].arg.id)) = {}
       THEN Done(w, Response("update_note", req[w].arg, 500, "Internal Server Error", {}))
       ELSE Done(w, Response("update_note", req[w].arg, 200, "",
                             ById(notes, ObjectId(req[w].arg.id))))
    /\ UNCHANGED <<users, admins, tasks, notes, now, nextOid, issued>>

\* delete_note: result = await notes.delete_one({"_id": obj_id, "user_id": ...})
delete_note_delete_one(w) ==
    /\ req[w].pc = "delete_owned" /\ req[w].op = "delete_note"
    /\ IF FindOwned(notes, ObjectId(req[w].arg), req[w].cu.user_id) = {}
       THEN Done(w, NotFound("delete_note", req[w].arg, "Note not found"))
       ELSE Done(w, Response("delete_note", req[w].arg, 200, "Note deleted successfully", {}))
    /\ notes' = notes \ FindOwned(notes, ObjectId(req[w].arg), req[w].cu.user_id)
    /\ UNCHANGED <<users, admins, tasks, now, nextOid, issued>>

NextAsync ==
    \/ \E w \in Procs : Receive(w)
    \/ \E w \in Procs : Authenticate(w)
    \/ \E w \in Procs : register_find(w)
    \/ \E w \in Procs : register_insert(w)
    \/ \E w \in Procs : login_users_find(w)
    \/ \E w \in Procs : login_admins_find(w)
    \/ \E w \in Procs : create_task_insert(w)
    \/ \E w \in Procs : create_note_insert(w)
    \/ \E w \in Procs : delete_user_delete_one(w)
    \/ \E w \in Procs : delete_user_delete_tasks(w)
    \/ \E w \in Procs : delete_user_delete_notes(w)
    \/ \E w \in Procs : update_profile_find(w)
    \/ \E w \in Procs : update_profile_update(w)
    \/ \E w \in Procs : update_profile_read(w)
    \/ \E w \in Procs : update_task_find(w)
    \/ \E w \in Procs : update_task_update(w)
    \/ \E w \in Procs : update_task_read(w)
    \/ \E w \in Procs : delete_task_delete_one(w)
    \/ \E w \in Procs : update_note_find(w)
    \/ \E w \in Procs : update_note_update(w)
    \/ \E w \in Procs : update_note_read(w)
    \/ \E w \in Procs : delete_note_delete_one(w)

SpecAsync == Init /\ [][NextAsync]_vars

----------------------------------------------------------------------------
(* Properties of SpecAsync *)

\* C4: no two documents of the users store have the same email.
C4_UserEmailsUnique ==
    \A u1 \in users : \A u2 \in users : u1.email = u2.email => u1 = u2

\* The documents a step inserted into a collection
Inserted(before, after) == {d \in after : d._id \notin {b._id : b \in before}}

\* C6: the user_id of a task or note is, at the moment the record is
\* inserted, the id of an account in the store.
C6_CreatorExistsAtInsert ==
    [][ \A d \in Inserted(tasks, tasks') \cup Inserted(notes, notes') :
            \E u \in users \cup admins : Str(u._id) = d.user_id
      ]_vars

\* Worker w takes a step of an update_task or update_note it is serving
UpdateStepOf(w) ==
    /\ req[w].op \in {"update_task", "update_note"}
    /\ req[w].pc # "idle"
    /\ req'[w] # req[w]

\* The step ends w's update with a documented outcome: the record as it is
\* in the store, or 400, 401 or 404
EndsDocumented(w) ==
    req'[w].pc = "idle" =>
        /\ resp'.status \in {200, 400, 401, 404}
        /\ resp'.status = 200 =>
                /\ resp'.body # {}
                /\ resp'.body \subseteq tasks' \cup notes'
                /\ \A d \in resp'.body : d._id = ObjectId(req[w].arg.id)

\* The step puts no record into the store that was not in it
RecreatesNothing ==
    /\ {d._id : d \in tasks'} \subseteq {d._id : d \in tasks}
    /\ {d._id : d \in notes'} \subseteq {d._id : d \in notes}

\* C11: every update_task and update_note call ends in a documented outcome
\* (the updated record, or 400, 401 or 404), never in an unhandled failure,
\* also when the record is removed between the ownership lookup and the
\* re-read; and no step of an update re-creates a removed record.
C11_UpdateEndsDocumented ==
    [][ \A w \in Procs : UpdateStepOf(w) => EndsDocumented(w) /\ RecreatesNothing ]_vars


====
